---------------------------- MODULE Spec2Model ----------------------------
(***************************************************************************)
(* Model of ffmpegio.devices (src/src/ffmpegio/devices.py): the            *)
(* process-wide device index SOURCES / SINKS, the scan() operation that    *)
(* rebuilds it from the text printed by "ffmpeg -sources" / "-sinks" and   *)
(* the plugin declarations, the query helpers and the spec resolvers.      *)
(*                                                                         *)
(* Text is modelled as a sequence of fragments (a header, a "Cannot list"  *)
(* line, a device line, anything else); an offset into the text is a       *)
(* number of fragments.  A regular expression of the code is modelled by   *)
(* the set of fragments it matches.                                        *)
(***************************************************************************)
EXTENDS Integers, Sequences, FiniteSets, TLC

\* ------------------------------------------------------------------ bounds

\* Longest probe output, in fragments, that get_devices / gather_device_info
\* are applied to in SpecParse.
MaxTokens == 4

\* ------------------------------------------------------------ text fragments

\* The two device roles as scan() spells them (dev_type of get_devices).
DevTypes == {"sources", "sinks"}

\* A fragment "Auto-detected {role} for {key}:\n".
Header(role, key) ==
    [role |-> role, key |-> key, t |-> "header", mark |-> "", name |-> "",
     description |-> "", types |-> ""]

\* A fragment "Cannot list {role}. Not implemented.\n".
CannotList(role) ==
    [role |-> role, key |-> "", t |-> "cannot", mark |-> "", name |-> "",
     description |-> "", types |-> ""]

\* A fragment "{mark} {name} [{description}] ({types})\n".
DevLine(mark, name, description, types) ==
    [role |-> "", key |-> "", t |-> "device", mark |-> mark, name |-> name,
     description |-> description, types |-> types]

\* Any other text (diagnostic noise).
Noise ==
    [role |-> "", key |-> "", t |-> "noise", mark |-> "", name |-> "",
     description |-> "", types |-> ""]

\* str.split(",") on the strings the model uses.
Split(s) ==
    CASE s = "x" -> <<"x">>
      [] s = "y" -> <<"y">>
      [] s = "x,y" -> <<"x", "y">>
      [] s = "video" -> <<"video">>
      [] s = "audio" -> <<"audio">>
      [] s = "video,audio" -> <<"video", "audio">>
      [] s = "data" -> <<"data">>
      [] OTHER -> <<s>>

\* f"{media_type[0]}:{n}" (line 87): the spec key of the n-th device of a
\* media type.
SpecKeys ==
    [video |-> <<"v:0", "v:1", "v:2", "v:3", "v:4", "v:5">>,
     audio |-> <<"a:0", "a:1", "a:2", "a:3", "a:4", "a:5">>]

FormatSpec(media_type, n) == SpecKeys[media_type][n + 1]

\* k.startswith(mtype) for a spec key k and mtype "v" or "a" (line 125).
StartsWith(k, mtype) ==
    \/ mtype = "v" /\ \E i \in DOMAIN SpecKeys.video : SpecKeys.video[i] = k
    \/ mtype = "a" /\ \E i \in DOMAIN SpecKeys.audio : SpecKeys.audio[i] = k

\* The empty dict.
EmptyDict == [k \in {} |-> Noise]

\* d with d[k] = v (dict item assignment).
DictSet(d, k, v) == [j \in DOMAIN d \cup {k} |-> IF j = k THEN v ELSE d[j]]

\* seq[i0:i1] of Python, offsets counted from 0.
Slice(seq, i0, i1) == SubSeq(seq, i0 + 1, i1)


\* ------------------------------------------------- scan(): get_devices (51-92)

\* What _exec returns (line 52): the probe ran and printed stdout, or it could
\* not be run and _exec raised.
ProbeRan(stdout) == [stdout |-> stdout, fails |-> FALSE]
ProbeFails == [stdout |-> <<>>, fails |-> TRUE]

\* Whether re "Auto-detected {dev_type} for (.+?):\n" (line 64) matches the
\* fragment.
HeaderMatches(dev_type, frag) == frag.t = "header" /\ frag.role = dev_type

\* [[m[1], *m.span()] for m in re.finditer(...)] (lines 62-65): one entry per
\* header of the role, in text order, with the header's own span.
RECURSIVE FindHeaders(_, _, _)
FindHeaders(dev_type, stdout, p) ==
    IF p > Len(stdout) THEN <<>>
    ELSE IF HeaderMatches(dev_type, stdout[p])
         THEN <<[name |-> stdout[p].key, i0 |-> p - 1, i1 |-> p]>>
              \o FindHeaders(dev_type, stdout, p + 1)
         ELSE FindHeaders(dev_type, stdout, p + 1)

\* The loop of lines 66-68, from index i (counted from 0) on.
RECURSIVE ShiftSpans(_, _)
ShiftSpans(src_spans, i) ==
    IF i >= Len(src_spans) - 1 THEN src_spans
    ELSE ShiftSpans(
           [src_spans EXCEPT ![i + 1] =
               [name |-> @.name, i0 |-> @.i1, i1 |-> src_spans[i + 2].i0]],
           i + 1)

\* Mutant: the last span is left as the loop left it (the header's own span).
SrcSpansLastUntouched(dev_type, stdout) ==
    LET found == FindHeaders(dev_type, stdout, 1)
    IN  IF Len(found) = 0
        THEN [raised |-> TRUE, exc |-> "IndexError", value |-> <<>>]
        ELSE [raised |-> FALSE, exc |-> "", value |-> ShiftSpans(found, 0)]

\* src_spans after lines 62-70.  src_spans[-1] of an empty list raises
\* IndexError (line 69).
SrcSpans(dev_type, stdout) ==
    LET found == FindHeaders(dev_type, stdout, 1)
        shifted == ShiftSpans(found, 0)
        n == Len(shifted)
    IN  IF n = 0
        THEN [raised |-> TRUE, exc |-> "IndexError", value |-> <<>>]
        ELSE [raised |-> FALSE, exc |-> "",
              value |-> [shifted EXCEPT ![n] =
                            [name |-> @.name, i0 |-> @.i1, i1 |-> Len(stdout)]]]

\* Whether re "([ *]) (.+?) \[(.+?)\] \((.+?)\)\n" (line 78) matches the
\* fragment.
DeviceLineMatches(frag) == frag.t = "device"

\* log.startswith(f"Cannot list {dev_type}") (line 74).
StartsWithCannotList(dev_type, log) ==
    Len(log) > 0 /\ log[1].t = "cannot" /\ log[1].role = dev_type

\* The inner loop of lines 85-89 over media_types[j..].
RECURSIVE ParseMediaTypes(_, _, _, _)
ParseMediaTypes(media_types, j, info, acc) ==
    IF j > Len(media_types) THEN acc
    ELSE LET media_type == media_types[j]
         IN  IF media_type \in {"video", "audio"}
             THEN LET spec == FormatSpec(media_type, acc.counts[media_type])
                  IN  ParseMediaTypes(media_types, j + 1, info,
                        [counts |-> [acc.counts EXCEPT ![media_type] = @ + 1],
                         devices |-> DictSet(acc.devices, spec,
                             [name |-> info.name,
                              description |-> info.description,
                              media_type |-> media_type,
                              is_default |-> info.is_default])])
             ELSE ParseMediaTypes(media_types, j + 1, info, acc)

\* The loop of lines 78-89 over the device lines of log[p..].
RECURSIVE ParseLines(_, _, _)
ParseLines(log, p, acc) ==
    IF p > Len(log) THEN acc
    ELSE IF DeviceLineMatches(log[p])
         THEN LET info == [name |-> log[p].name,
                           description |-> log[p].description,
                           is_default |-> IF log[p].mark = "*" THEN "True"
                                          ELSE "None"]
              IN  ParseLines(log, p + 1,
                     ParseMediaTypes(Split(log[p].types), 1, info, acc))
         ELSE ParseLines(log, p + 1, acc)

\* Mutant: a listing that cannot be listed parses to the empty dict.
ParseNeverNone(dev_type, log) ==
    [devices |-> ParseLines(log, 1,
         [counts |-> [video |-> 0, audio |-> 0],
          devices |-> EmptyDict]).devices,
     none |-> FALSE]

\* parse(log) (lines 72-90): None for a listing that starts with "Cannot list
\* {dev_type}", else the dict of the devices.
Parse(dev_type, log) ==
    IF StartsWithCannotList(dev_type, log)
    THEN [devices |-> EmptyDict, none |-> TRUE]
    ELSE [devices |-> ParseLines(log, 1,
              [counts |-> [video |-> 0, audio |-> 0],
               devices |-> EmptyDict]).devices,
          none |-> FALSE]

\* get_devices(dev_type) (lines 51-92) on what _exec returned.
GetDevices(dev_type, out) ==
    IF out.fails
    THEN [raised |-> TRUE, exc |-> "ProbeUnavailable", value |-> <<>>]
    ELSE LET spans == SrcSpans(dev_type, out.stdout)
         IN  IF spans.raised THEN spans
             ELSE [raised |-> FALSE, exc |-> "",
                   value |-> [i \in DOMAIN spans.value |->
                       [key |-> spans.value[i].name,
                        devlist |-> Parse(dev_type,
                            Slice(out.stdout, spans.value[i].i0,
                                  spans.value[i].i1))]]]

\* ------------------------------------------------------ plugin declarations

\* A family dict ("info"): the keys it has and their values.  A capability
\* (a function value) is "absent" (no such key), "ok" (it returns) or "raise"
\* (calling it raises).
Info(haslist, list, scan, resolve, list_options) ==
    [haslist |-> haslist, list |-> list, scan |-> scan, resolve |-> resolve,
     list_options |-> list_options]

\* {"list": devlist} (line 110).
ListOnly(devlist) == Info(TRUE, devlist, "absent", "absent", "absent")

\* What a plugin's scan capability returns when it returns.
PluginScanResult ==
    [k \in {"v:0"} |->
        [name |-> "video=plugcam", description |-> "plugin camera",
         media_type |-> "video", is_default |-> "None"]]

\* A list a plugin declares itself.
PluginDeclaredList ==
    [k \in {"a:0"} |->
        [name |-> "audio=plugmic", description |-> "plugin microphone",
         media_type |-> "audio", is_default |-> "None"]]

\* What a plugin's resolve capability returns for (role, url) when it returns.
PluginResolve(role, url) ==
    CASE role = "source" /\ url = "v:0" -> "video=resolved-source-v0"
      [] role = "source" /\ url = "a:0" -> "audio=resolved-source-a0"
      [] role = "source" -> "resolved-source-other"
      [] role = "sink" /\ url = "v:0" -> "video=resolved-sink-v0"
      [] role = "sink" /\ url = "a:0" -> "audio=resolved-sink-a0"
      [] OTHER -> "resolved-sink-other"

\* What a plugin's list_options capability returns for (role, enum).
PluginListOptions(role, enum) == <<[role |-> role, enum |-> enum]>>

\* The declarations plugins.get_hook().device_source_api() /
\* device_sink_api() may hand to scan (line 95-97).
FullPlugin == Info(FALSE, EmptyDict, "ok", "ok", "ok")
BrokenPlugin == Info(FALSE, EmptyDict, "raise", "raise", "absent")
BarePlugin == Info(FALSE, EmptyDict, "absent", "absent", "absent")
RaisingResolver == Info(FALSE, EmptyDict, "absent", "raise", "ok")
StaticPlugin == Info(TRUE, PluginDeclaredList, "absent", "absent", "ok")

NoPlugins == [n \in {} |-> FullPlugin]
PluginFor(name, decl) == [n \in {name} |-> decl]

\* The registries of the model: what each hook returns, by hook name.
Registries ==
    { [device_source_api |-> NoPlugins, device_sink_api |-> NoPlugins],
      [device_source_api |-> PluginFor("x", FullPlugin),
       device_sink_api |-> PluginFor("x", StaticPlugin)],
      [device_source_api |-> PluginFor("x", BrokenPlugin),
       device_sink_api |-> PluginFor("x", FullPlugin)],
      [device_source_api |-> PluginFor("x", BarePlugin),
       device_sink_api |-> PluginFor("y", FullPlugin)],
      [device_source_api |-> PluginFor("y", FullPlugin),
       device_sink_api |-> PluginFor("x", BarePlugin)],
      [device_source_api |-> PluginFor("x", RaisingResolver),
       device_sink_api |-> PluginFor("x", RaisingResolver)] }

\* ------------------------------------- scan(): gather_device_info (94-115)

\* The record of one capability call, or of one lookup in a family's list:
\* which capability, of which family, with which role and argument, and for
\* a scan the listing (counted from 1) it was called for.
Called(cap, family, role, arg, at) ==
    [role |-> role, cap |-> cap, family |-> family, arg |-> arg, at |-> at]

\* bool(devlist) of line 110: None and the empty dict are false.
Truthy(devlist) == ~devlist.none /\ DOMAIN devlist.devices # {}

\* "for name in names: devs[name] = info" (lines 113-114) from names[j] on.
RECURSIVE RegisterNames(_, _, _, _)
RegisterNames(devs, names, j, entry) ==
    IF j > Len(names) THEN devs
    ELSE RegisterNames(DictSet(devs, names[j], entry), names, j + 1, entry)

\* One iteration of the loop of lines 99-114, for the i-th listing.  st holds
\* the locals: plugin_devices (the plugin dicts, which line 106 and 108
\* change in place), devs (each value either a reference to the plugin dict
\* of a name, ref # "", or a dict of its own), the capability calls made so
\* far, and whether a call raised.
GatherStep(dev_type, st, i, key, devlist) ==
    LET names == Split(key)
        name == names[1]
    IN  IF name \in DOMAIN st.plugin_devices
        THEN LET info == st.plugin_devices[name]
                 entry == [info |-> info, ref |-> name]
             IN  IF ~devlist.none
                 THEN [st EXCEPT
                         !.plugin_devices[name] =
                             [info EXCEPT !.haslist = TRUE,
                                          !.list = devlist.devices],
                         !.devs = RegisterNames(st.devs, names, 1, entry)]
                 ELSE IF info.scan = "absent"
                 THEN [st EXCEPT
                         !.devs = RegisterNames(st.devs, names, 1, entry)]
                 ELSE IF info.scan = "raise"
                 THEN [st EXCEPT
                         !.calls = Append(@, Called("scan", name, dev_type, "", i)),
                         !.raised = TRUE]
                 ELSE [st EXCEPT
                         !.calls = Append(@, Called("scan", name, dev_type, "", i)),
                         !.plugin_devices[name] =
                             [info EXCEPT !.haslist = TRUE,
                                          !.list = PluginScanResult],
                         !.devs = RegisterNames(st.devs, names, 1, entry)]
        ELSE IF Truthy(devlist)
             THEN [st EXCEPT
                     !.devs = RegisterNames(st.devs, names, 1,
                                 [info |-> ListOnly(devlist.devices), ref |-> ""])]
             ELSE st

\* The loop of lines 99-114 from the i-th listing on; it stops where a
\* capability raises.
RECURSIVE GatherLoop(_, _, _, _)
GatherLoop(dev_type, listings, i, st) ==
    IF i > Len(listings) \/ st.raised THEN st
    ELSE GatherLoop(dev_type, listings, i + 1,
            GatherStep(dev_type, st, i, listings[i].key, listings[i].devlist))

\* gather_device_info(dev_type, hook) (lines 94-115): the new index of the
\* role, the capability calls made, or the exception that leaves it.
GatherDeviceInfo(dev_type, hook, out, registry) ==
    LET got == GetDevices(dev_type, out)
    IN  IF got.raised
        THEN [raised |-> TRUE, exc |-> got.exc, devs |-> EmptyDict,
              calls |-> <<>>]
        ELSE LET st == GatherLoop(dev_type, got.value, 1,
                          [raised |-> FALSE, devs |-> EmptyDict,
                           plugin_devices |-> registry[hook],
                           calls |-> <<>>])
             IN  IF st.raised
                 THEN [raised |-> TRUE, exc |-> "PluginScanError",
                       devs |-> EmptyDict, calls |-> st.calls]
                 ELSE [raised |-> FALSE, exc |-> "",
                       devs |-> [n \in DOMAIN st.devs |->
                                   IF st.devs[n].ref # ""
                                   THEN st.plugin_devices[st.devs[n].ref]
                                   ELSE st.devs[n].info],
                       calls |-> st.calls]

\* ------------------------------------------------------------------ state

VARIABLES
    SOURCES,    \* the module global SOURCES (line 24): family name -> info
    SINKS,      \* the module global SINKS (line 25)
    plugins,    \* what the plugin hooks return, by hook name
    calls,      \* the capability calls and list lookups of the last call
    call,       \* the last call of the module: op, args, and how it ended
    scanned     \* whether scan() has been called since import

vars == <<SOURCES, SINKS, plugins, calls, call, scanned>>

\* A string as a returned url (a url may also come back as a device record).
Str(s) == [str |-> s]

Returned(op, args, value) ==
    [raised |-> FALSE, exc |-> "", value |-> value, op |-> op, args |-> args,
     done |-> TRUE]

Raised(op, args, exc) ==
    [raised |-> TRUE, exc |-> exc, value |-> <<>>, op |-> op, args |-> args,
     done |-> TRUE]

Pending(op, args) ==
    [raised |-> FALSE, exc |-> "", value |-> <<>>, op |-> op, args |-> args,
     done |-> FALSE]

\* SOURCES = {} and SINKS = {} at import (lines 24-25); the plugins are
\* registered once, before any scan.
Init ==
    /\ SOURCES = EmptyDict
    /\ SINKS = EmptyDict
    /\ plugins \in Registries
    /\ calls = <<>>
    /\ call = Returned("import", <<>>, <<>>)
    /\ scanned = FALSE

\* ------------------------------------------------- query helpers (121-231)

\* _list_devices(devs, mtype) (lines 121-126); the names as a set.
ListDevices(devs, mtype) ==
    {dev \in DOMAIN devs :
        /\ devs[dev].haslist
        /\ \E k \in DOMAIN devs[dev].list : StartsWith(k, mtype)}

\* The values of dev_type the model passes: None, the two roles, and a
\* string that is neither.
NoneType == "None"
DevTypeArgs == {NoneType, "source", "sink", "bogus"}

\* bool(devs) of a dict: the empty dict is false.
TruthyDict(devs) == DOMAIN devs # {}

\* Mutant: an unknown device or role is answered with an empty family instead
\* of a ValueError.
GetDevNoRaise(sources, sinks, device, dev_type) ==
    IF dev_type # "sink" /\ device \in DOMAIN sources
    THEN [raised |-> FALSE, exc |-> "", info |-> sources[device],
          from |-> "source"]
    ELSE IF dev_type # "source" /\ device \in DOMAIN sinks
    THEN [raised |-> FALSE, exc |-> "", info |-> sinks[device], from |-> "sink"]
    ELSE [raised |-> FALSE, exc |-> "", info |-> ListOnly(EmptyDict),
          from |-> ""]

\* _get_dev(device, dev_type) (lines 165-180) on the index (sources, sinks).
GetDev(sources, sinks, device, dev_type) ==
    IF dev_type \notin {NoneType, "source", "sink"}
    THEN [raised |-> TRUE, exc |-> "ValueError: Unknown dev_type",
          info |-> BarePlugin, from |-> ""]
    ELSE LET devices == IF dev_type = "source" THEN sources ELSE sinks
             unknown == [raised |-> TRUE,
                         exc |-> "ValueError: Unknown/unenumerated device",
                         info |-> BarePlugin, from |-> ""]
         IN  IF dev_type # NoneType /\ TruthyDict(devices)
             THEN IF device \in DOMAIN devices
                  THEN [raised |-> FALSE, exc |-> "", info |-> devices[device],
                        from |-> dev_type]
                  ELSE unknown
             ELSE IF device \in DOMAIN sources
                  THEN [raised |-> FALSE, exc |-> "", info |-> sources[device],
                        from |-> "source"]
                  ELSE IF device \in DOMAIN sinks
                  THEN [raised |-> FALSE, exc |-> "", info |-> sinks[device],
                        from |-> "sink"]
                  ELSE unknown

\* list_hardware(device, dev_type) (lines 183-193).
ListHardwareOf(sources, sinks, device, dev_type) ==
    LET got == GetDev(sources, sinks, device, dev_type)
        args == [device |-> device, dev_type |-> dev_type, from |-> got.from]
    IN  IF got.raised THEN Raised("list_hardware", args, got.exc)
        ELSE IF ~got.info.haslist
             THEN Raised("list_hardware", args, "KeyError: list")
             ELSE Returned("list_hardware", args, got.info.list)

\* list_source_options / list_sink_options (lines 196-231) for role "source"
\* or "sink".
ListOptionsOf(sources, sinks, role, device, enum) ==
    LET got == GetDev(sources, sinks, device, role)
        op == IF role = "source" THEN "list_source_options"
              ELSE "list_sink_options"
        args == [device |-> device, enum |-> enum, from |-> got.from]
    IN  IF got.raised
        THEN [calls |-> <<>>, call |-> Raised(op, args, got.exc)]
        ELSE IF got.info.list_options = "absent"
             THEN [calls |-> <<>>,
                   call |-> Raised(op, args, "ValueError: No options to list")]
             ELSE [calls |-> <<Called("list_options", device, role, enum, 0)>>,
                   call |-> Returned(op, args, PluginListOptions(role, enum))]

\* ---------------------------------------------------- resolvers (234-291)

\* Mutant: the fast path takes the format option out of the options.
ReturnWithoutFormat(url, opts) ==
    <<Str(url), [k \in DOMAIN opts \ {"f"} |-> opts[k]]>>

\* "return url, opts" of the first except clause (lines 253, 283).
ReturnUnchanged(url, opts) == <<Str(url), opts>>

\* Mutant: resolve_sink, copied from resolve_source, still passes "source".
CallResolveAsSource(dev, family, role, url) ==
    [raised |-> dev.resolve = "raise",
     url |-> Str(PluginResolve("source", url)),
     calls |-> <<Called("resolve", family, "source", url, 0)>>]

\* dev["resolve"](role, url) (lines 256, 286) for a family that has the
\* capability: the call made, and its result unless it raises.
CallResolve(dev, family, role, url) ==
    [raised |-> dev.resolve = "raise",
     url |-> Str(PluginResolve(role, url)),
     calls |-> <<Called("resolve", family, role, url, 0)>>]

\* Mutant: the lookup without the return in a finally clause: a failed
\* lookup raises.
ListFallbackRaising(dev, family, role, url) ==
    [raised |-> ~(dev.haslist /\ url \in DOMAIN dev.list),
     url |-> IF dev.haslist /\ url \in DOMAIN dev.list THEN dev.list[url]
             ELSE Str(url),
     calls |-> <<Called("list_lookup", family, role, url, 0)>>]

\* The except clause of lines 257-261 (287-291): "url = dev["list"][url]",
\* and the return of the finally clause, which also discards the KeyError of
\* a family without "list" or of a url that is no key of it.
ListFallback(dev, family, role, url) ==
    [raised |-> FALSE,
     url |-> IF dev.haslist /\ url \in DOMAIN dev.list THEN dev.list[url]
             ELSE Str(url),
     calls |-> <<Called("list_lookup", family, role, url, 0)>>]

\* The body shared by resolve_source (lines 248-261, devs = SOURCES, role =
\* "source") and resolve_sink (lines 278-291, devs = SINKS, role = "sink").
\* The first try returns (url, opts) on any exception (no "f", unknown
\* family; no family of the index is None); the second calls dev["resolve"],
\* and any exception of it (the KeyError of a family without "resolve"
\* included) leads to the list lookup.
Resolve(devs, role, url, opts) ==
    IF "f" \notin DOMAIN opts \/ opts["f"] \notin DOMAIN devs
    THEN [raised |-> FALSE, value |-> ReturnUnchanged(url, opts),
          calls |-> <<>>]
    ELSE LET family == opts["f"]
             dev == devs[family]
             tried == IF dev.resolve = "absent"
                      THEN [raised |-> TRUE, url |-> Str(url), calls |-> <<>>]
                      ELSE CallResolve(dev, family, role, url)
             listed == ListFallback(dev, family, role, url)
         IN  IF ~tried.raised
             THEN [raised |-> FALSE, value |-> <<tried.url, opts>>,
                   calls |-> tried.calls]
             ELSE [raised |-> listed.raised, value |-> <<listed.url, opts>>,
                   calls |-> tried.calls \o listed.calls]

\* ----------------------------------------------------------------- inputs

\* The device lines the probe outputs of the model are made of.
Cam == DevLine(" ", "cam", "Camera", "video")
Mic == DevLine("*", "mic", "Microphone", "audio")
Both == DevLine(" ", "grabber", "Capture card", "video,audio")
Sensor == DevLine(" ", "sensor", "Sensor", "data")

\* What the probe prints for a role, in the scans of Spec.
ScanTexts(r) ==
    { <<>>,
      <<Header(r, "x"), Cam>>,
      <<Header(r, "x"), CannotList(r)>>,
      <<Header(r, "y")>>,
      <<Noise, Header(r, "x,y"), Mic, Both>>,
      <<Header(r, "y"), Sensor, Header(r, "x"), Both>> }

ScanOutputs(r) == {ProbeFails} \cup {ProbeRan(t) : t \in ScanTexts(r)}

\* What _exec may return for "ffmpeg -sources" and for "ffmpeg -sinks".
SourceProbes == ScanOutputs("sources")
SinkProbes == ScanOutputs("sinks")

Devices == {"x", "y", "z"}
Enums == {"v:0"}
Urls == {"v:0", "a:0", "file.mp4"}
Options ==
    { [k \in {"r"} |-> "30"],
      [k \in {"f"} |-> "x"],
      [k \in {"f", "r"} |-> IF k = "f" THEN "y" ELSE "30"],
      [k \in {"f"} |-> "z"] }

\* ----------------------------------------------------------------- actions

\* Mutant: the new families are merged into the old index.
UpdateGlobal(old, devs) ==
    [n \in DOMAIN old \cup DOMAIN devs |->
        IF n \in DOMAIN devs THEN devs[n] ELSE old[n]]

\* "SOURCES = ..." / "SINKS = ..." (lines 117-118) rebinds the global to
\* the new dict: nothing of the old one is kept.
AssignGlobal(old, devs) == devs

\* scan() (lines 28-118): line 117 assigns SOURCES before line 118 gathers
\* the sinks, so an exception out of line 118 leaves the new SOURCES with the
\* old SINKS.
Scan ==
    \E src \in SourceProbes :
        LET args == [SOURCES |-> SOURCES, SINKS |-> SINKS]
            g1 == GatherDeviceInfo("sources", "device_source_api", src, plugins)
        IN  \/ /\ g1.raised
               /\ scanned' = TRUE
               /\ UNCHANGED <<SOURCES, SINKS, plugins>>
               /\ calls' = g1.calls
               /\ call' = Raised("scan", [sources |-> src,
                                          sinks |-> ProbeFails, at |-> 117,
                                          pre |-> args],
                                 g1.exc)
            \/ /\ ~g1.raised
               /\ SOURCES' = AssignGlobal(SOURCES, g1.devs)
               /\ \E snk \in SinkProbes :
                    LET g2 == GatherDeviceInfo("sinks", "device_sink_api", snk,
                                               plugins)
                        io == [sources |-> src, sinks |-> snk, at |-> 118,
                               pre |-> args]
                    IN  /\ SINKS' = IF g2.raised THEN SINKS
                                   ELSE AssignGlobal(SINKS, g2.devs)
                        /\ calls' = g1.calls \o g2.calls
                        /\ call' = IF g2.raised THEN Raised("scan", io, g2.exc)
                                   ELSE Returned("scan", io, <<>>)
               /\ scanned' = TRUE
               /\ UNCHANGED plugins

ListVideoSources ==
    /\ call' = Returned("list_video_sources", <<>>, ListDevices(SOURCES, "v"))
    /\ calls' = <<>>
    /\ UNCHANGED <<SOURCES, SINKS, plugins, scanned>>

ListAudioSources ==
    /\ call' = Returned("list_audio_sources", <<>>, ListDevices(SOURCES, "a"))
    /\ calls' = <<>>
    /\ UNCHANGED <<SOURCES, SINKS, plugins, scanned>>

ListVideoSinks ==
    /\ call' = Returned("list_video_sinks", <<>>, ListDevices(SINKS, "v"))
    /\ calls' = <<>>
    /\ UNCHANGED <<SOURCES, SINKS, plugins, scanned>>

ListAudioSinks ==
    /\ call' = Returned("list_audio_sinks", <<>>, ListDevices(SINKS, "a"))
    /\ calls' = <<>>
    /\ UNCHANGED <<SOURCES, SINKS, plugins, scanned>>

ListHardware ==
    \E device \in Devices, dev_type \in DevTypeArgs :
        /\ call' = ListHardwareOf(SOURCES, SINKS, device, dev_type)
        /\ calls' = <<>>
        /\ UNCHANGED <<SOURCES, SINKS, plugins, scanned>>

ListSourceOptions ==
    \E device \in Devices, enum \in Enums :
        LET r == ListOptionsOf(SOURCES, SINKS, "source", device, enum)
        IN  /\ call' = r.call
            /\ calls' = r.calls
            /\ UNCHANGED <<SOURCES, SINKS, plugins, scanned>>

ListSinkOptions ==
    \E device \in Devices, enum \in Enums :
        LET r == ListOptionsOf(SOURCES, SINKS, "sink", device, enum)
        IN  /\ call' = r.call
            /\ calls' = r.calls
            /\ UNCHANGED <<SOURCES, SINKS, plugins, scanned>>

ResolveSource ==
    \E url \in Urls, opts \in Options :
        LET r == Resolve(SOURCES, "source", url, opts)
            args == [url |-> url, opts |-> opts]
        IN  /\ call' = IF r.raised THEN Raised("resolve_source", args, "Error")
                       ELSE Returned("resolve_source", args, r.value)
            /\ calls' = r.calls
            /\ UNCHANGED <<SOURCES, SINKS, plugins, scanned>>

ResolveSink ==
    \E url \in Urls, opts \in Options :
        LET r == Resolve(SINKS, "sink", url, opts)
            args == [url |-> url, opts |-> opts]
        IN  /\ call' = IF r.raised THEN Raised("resolve_sink", args, "Error")
                       ELSE Returned("resolve_sink", args, r.value)
            /\ calls' = r.calls
            /\ UNCHANGED <<SOURCES, SINKS, plugins, scanned>>

Next ==
    \/ Scan
    \/ ListVideoSources
    \/ ListAudioSources
    \/ ListVideoSinks
    \/ ListAudioSinks
    \/ ListHardware
    \/ ListSourceOptions
    \/ ListSinkOptions
    \/ ResolveSource
    \/ ResolveSink

Spec == Init /\ [][Next]_vars

\* --------------------------------------- the parser on every short output

OtherDevType(r) == IF r = "sources" THEN "sinks" ELSE "sources"

\* The fragments a probe output for role r is made of: headers of the role
\* (one with an alias list), a header of the other role, the "Cannot list"
\* line and a device line.
Fragments(r) ==
    { Header(r, "x"), Header(r, "x,y"), Header(r, "y"),
      Header(OtherDevType(r), "x"), CannotList(r), Both }

\* Every text of at most n fragments.
RECURSIVE TextsUpTo(_, _)
TextsUpTo(r, n) ==
    IF n = 0 THEN {<<>>}
    ELSE LET shorter == TextsUpTo(r, n - 1)
         IN  shorter \cup
             {Append(t, f) : t \in {u \in shorter : Len(u) = n - 1},
                             f \in Fragments(r)}

\* gather_device_info(dev_type, hook) is about to run on a probe output.
InitParse ==
    /\ SOURCES = EmptyDict
    /\ SINKS = EmptyDict
    /\ plugins \in Registries
    /\ calls = <<>>
    /\ scanned = FALSE
    /\ \E dev_type \in DevTypes :
         \E text \in TextsUpTo(dev_type, MaxTokens) :
            call = Pending("gather_device_info",
                           [dev_type |-> dev_type, out |-> ProbeRan(text)])

HookOf(dev_type) ==
    IF dev_type = "sources" THEN "device_source_api" ELSE "device_sink_api"

\* get_devices returns (line 92); the call record also shows src_spans.
GetDevicesReturns ==
    /\ ~call.done
    /\ LET got == GetDevices(call.args.dev_type, call.args.out)
           spans == SrcSpans(call.args.dev_type, call.args.out.stdout)
       IN  call' = IF got.raised
                   THEN Raised("get_devices", call.args, got.exc)
                   ELSE Returned("get_devices", call.args,
                                 [src_spans |-> spans.value,
                                  listings |-> got.value])
    /\ UNCHANGED <<SOURCES, SINKS, plugins, calls, scanned>>

\* gather_device_info returns (line 115).
GatherDeviceInfoReturns ==
    /\ ~call.done
    /\ LET g == GatherDeviceInfo(call.args.dev_type,
                                 HookOf(call.args.dev_type), call.args.out,
                                 plugins)
       IN  /\ call' = IF g.raised
                      THEN Raised("gather_device_info", call.args, g.exc)
                      ELSE Returned("gather_device_info", call.args, g.devs)
           /\ calls' = g.calls
    /\ UNCHANGED <<SOURCES, SINKS, plugins, scanned>>

NextParse == GetDevicesReturns \/ GatherDeviceInfoReturns

SpecParse == InitParse /\ [][NextParse]_vars

\* ------------------------------------------- reading a probe output directly

\* The positions (counted from 1) of the headers of role r in a text.
HeaderPositions(r, text) ==
    {p \in 1..Len(text) : text[p].t = "header" /\ text[p].role = r}

HeaderCount(r, text) == Cardinality(HeaderPositions(r, text))

\* The position of the i-th header of role r.
NthHeader(r, text, i) ==
    CHOOSE p \in HeaderPositions(r, text) :
        Cardinality({q \in HeaderPositions(r, text) : q < p}) = i - 1

\* The position of the last fragment before the (i+1)-th header, or of the
\* last fragment of the text.
ListingLast(r, text, i) ==
    IF i < HeaderCount(r, text) THEN NthHeader(r, text, i + 1) - 1
    ELSE Len(text)

\* The text between the i-th header and the next one.
ListingText(r, text, i) ==
    SubSeq(text, NthHeader(r, text, i) + 1, ListingLast(r, text, i))

\* The i-th listing starts with "Cannot list {r}".
Unavailable(r, text, i) ==
    LET log == ListingText(r, text, i)
    IN  log # <<>> /\ log[1] = CannotList(r)

\* The names (aliases included) of the i-th header.
SeqRange(q) == {q[j] : j \in DOMAIN q}
ListingNames(r, text, i) == SeqRange(Split(text[NthHeader(r, text, i)].key))
FirstName(r, text, i) == Split(text[NthHeader(r, text, i)].key)[1]

\* text[src_spans[i][1]:src_spans[i][2]] for i = from.., joined.
RECURSIVE JoinSlices(_, _, _)
JoinSlices(text, spans, from) ==
    IF from > Len(spans) THEN <<>>
    ELSE Slice(text, spans[from].i0, spans[from].i1)
         \o JoinSlices(text, spans, from + 1)

\* A text without the headers of role r.
WithoutHeaders(r, text) ==
    LET Keep(frag) == ~(frag.t = "header" /\ frag.role = r)
    IN  SelectSeq(text, Keep)

\* ------------------------------------------------------------------ claims

GetDevicesDone == call.op = "get_devices" /\ call.done
GatherDone == call.op = "gather_device_info" /\ call.done

HookPlugins(r) == plugins[HookOf(r)]

\* The listings of role r that cannot be listed and whose header's first name
\* has a plugin declaration with a scan capability.
ScanListings(r, text) ==
    {i \in 1..HeaderCount(r, text) :
        /\ Unavailable(r, text, i)
        /\ FirstName(r, text, i) \in DOMAIN HookPlugins(r)
        /\ HookPlugins(r)[FirstName(r, text, i)].scan # "absent"}

\* No header after the i-th names one of the i-th header's names again.
NotNamedAgain(r, text, i) ==
    \A j \in (i + 1)..HeaderCount(r, text) :
        ListingNames(r, text, j) \cap ListingNames(r, text, i) = {}

\* The scan capability calls of the last call, as positions in calls.
ScanCalls == {j \in DOMAIN calls : calls[j].cap = "scan"}

\* A listing that starts with "Cannot list {role}" parses to None.
CannotListIsNone ==
    (GetDevicesDone /\ ~call.raised) =>
        \A i \in 1..HeaderCount(call.args.dev_type, call.args.out.stdout) :
            Unavailable(call.args.dev_type, call.args.out.stdout, i)
                => call.value.listings[i].devlist.none

\* A scan capability is called only for a listing that cannot be listed.
ScanOnlyForUnavailable ==
    GatherDone =>
        \A j \in ScanCalls :
            Unavailable(call.args.dev_type, call.args.out.stdout, calls[j].at)

\* C8, as stated: a listing that starts with "Cannot list {role}" parses to
\* None; if the header's first name has a plugin declaration with a scan
\* capability, the capability is called exactly once in that scan for that
\* role and its result becomes the family's list; a scan capability is never
\* called for an available listing.
Orig_C8 ==
    /\ CannotListIsNone
    /\ ScanOnlyForUnavailable
    /\ (GatherDone /\ ~call.raised) =>
          LET r == call.args.dev_type
              text == call.args.out.stdout
          IN  \A i \in ScanListings(r, text) :
                LET family == FirstName(r, text, i)
                IN  /\ Cardinality({j \in ScanCalls :
                                      /\ calls[j].family = family
                                      /\ calls[j].role = r}) = 1
                    /\ call.value[family].haslist
                    /\ call.value[family].list = PluginScanResult

\* C8, amended: a listing that starts with "Cannot list {role}" parses to
\* None; the scan capability of the plugin declared under the header's first
\* name is called exactly once for each such listing, in listing order (twice
\* in one scan when the probe output has two such listings of that name), and
\* its result is the list of the family registered under the header's names
\* unless a later header names one of them again; a scan capability is never
\* called for an available listing.
Thm_C8 ==
    /\ CannotListIsNone
    /\ ScanOnlyForUnavailable
    /\ GatherDone =>
          LET r == call.args.dev_type
              text == call.args.out.stdout
          IN  /\ \A j \in ScanCalls :
                    /\ calls[j].at \in ScanListings(r, text)
                    /\ calls[j] = Called("scan", FirstName(r, text, calls[j].at),
                                         r, "", calls[j].at)
                    /\ \A j2 \in ScanCalls : j < j2 => calls[j].at < calls[j2].at
              /\ ~call.raised =>
                    /\ \A i \in ScanListings(r, text) :
                          \E j \in ScanCalls : calls[j].at = i
                    /\ \A i \in ScanListings(r, text) :
                          NotNamedAgain(r, text, i) =>
                             \A n \in ListingNames(r, text, i) :
                                /\ n \in DOMAIN call.value
                                /\ call.value[n].haslist
                                /\ call.value[n].list = PluginScanResult

\* gather_device_info has returned after calling the scan capability of one
\* family for two listings of its probe output.
Wit_C8 ==
    /\ GatherDone
    /\ ~call.raised
    /\ Len(calls) = 2
    /\ calls[1].cap = "scan" /\ calls[2].cap = "scan"
    /\ calls[1].family = calls[2].family
    /\ call.value[calls[1].family].list = PluginScanResult

\* C9, as stated: a family with no plugin declaration under its first name
\* whose listing is available (a listing with no device line included) is
\* registered under every alias with list equal to the parsed mapping; it is
\* omitted only if its listing is unavailable.  (Stated for a header whose
\* names no later header registers again.)
Orig_C9 ==
    (GatherDone /\ ~call.raised) =>
        LET r == call.args.dev_type
            text == call.args.out.stdout
        IN  \A i \in 1..HeaderCount(r, text) :
              ( /\ FirstName(r, text, i) \notin DOMAIN HookPlugins(r)
                /\ ~Unavailable(r, text, i)
                /\ NotNamedAgain(r, text, i) ) =>
                    \A n \in ListingNames(r, text, i) :
                        /\ n \in DOMAIN call.value
                        /\ call.value[n]
                             = ListOnly(Parse(r, ListingText(r, text, i)).devices)

\* ------------------------------------------------- claims on the index

ResolveDone == call.op \in {"resolve_source", "resolve_sink"}

\* The index and the role name a resolver uses.
ResolverIndex == IF call.op = "resolve_source" THEN SOURCES ELSE SINKS
ResolverRole == IF call.op = "resolve_source" THEN "source" ELSE "sink"

\* The options of the last resolver call name a family of its index.
FamilyFound ==
    /\ "f" \in DOMAIN call.args.opts
    /\ call.args.opts["f"] \in DOMAIN ResolverIndex

ResolvedFamily == ResolverIndex[call.args.opts["f"]]

\* C1: with no "f" option, or an "f" naming no family of the role's index,
\* resolve_source / resolve_sink return the (url, options) pair they were
\* given and do not raise.
Thm_C1 ==
    (ResolveDone /\ ~FamilyFound) =>
        /\ ~call.raised
        /\ call.value = <<Str(call.args.url), call.args.opts>>

\* resolve_sink was called, after a scan that filled SINKS, with an "f" that
\* names no family of SINKS.
Wit_C1 ==
    /\ call.op = "resolve_sink"
    /\ DOMAIN SINKS # {}
    /\ "f" \in DOMAIN call.args.opts
    /\ call.args.opts["f"] \notin DOMAIN SINKS

\* C2: for a family of the index without a resolve capability, or whose
\* resolve capability raises, the resolvers return (list[url], options) when
\* url is a key of the family's list and (url, options) otherwise, and do not
\* raise.
Thm_C2 ==
    (ResolveDone /\ FamilyFound /\ ResolvedFamily.resolve # "ok") =>
        /\ ~call.raised
        /\ call.value[2] = call.args.opts
        /\ call.value[1] =
              IF /\ ResolvedFamily.haslist
                 /\ call.args.url \in DOMAIN ResolvedFamily.list
              THEN ResolvedFamily.list[call.args.url]
              ELSE Str(call.args.url)

\* resolve_source was called for a family without a list whose resolve
\* capability raises.
Wit_C2 ==
    /\ call.op = "resolve_source"
    /\ FamilyFound
    /\ ResolvedFamily.resolve = "raise"
    /\ ~ResolvedFamily.haslist
    /\ call.value[1] = Str(call.args.url)

\* C3: for a family of the index whose resolve capability returns, the
\* resolver calls it once with its role and the url as given, returns its
\* result with the options unchanged, and does not look the url up in the
\* family's list.
Thm_C3 ==
    (ResolveDone /\ FamilyFound /\ ResolvedFamily.resolve = "ok") =>
        /\ ~call.raised
        /\ call.value = <<Str(PluginResolve(ResolverRole, call.args.url)),
                          call.args.opts>>
        /\ calls = <<Called("resolve", call.args.opts["f"], ResolverRole,
                            call.args.url, 0)>>

\* resolve_sink was called with a url that is a key of the list of a family
\* whose resolve capability returns.
Wit_C3 ==
    /\ call.op = "resolve_sink"
    /\ FamilyFound
    /\ ResolvedFamily.resolve = "ok"
    /\ ResolvedFamily.haslist
    /\ call.args.url \in DOMAIN ResolvedFamily.list

ListOps ==
    {"list_video_sources", "list_audio_sources", "list_video_sinks",
     "list_audio_sinks"}
LookupOps == {"list_hardware", "list_source_options", "list_sink_options"}

AllHeaderNames(r, text) ==
    UNION {ListingNames(r, text, i) : i \in 1..HeaderCount(r, text)}

\* C5: after a successful scan(), SOURCES and SINKS hold only family names of
\* the headers of that scan's probe output for the role; a family of an
\* earlier scan that the new output does not name is gone.
Thm_C5 ==
    (call.op = "scan" /\ ~call.raised) =>
        /\ DOMAIN SOURCES
              \subseteq AllHeaderNames("sources", call.args.sources.stdout)
        /\ DOMAIN SINKS
              \subseteq AllHeaderNames("sinks", call.args.sinks.stdout)

\* A successful scan() after which a family that was in SOURCES before is no
\* longer in it, while another is.
Wit_C5 ==
    /\ call.op = "scan"
    /\ ~call.raised
    /\ DOMAIN SOURCES # {}
    /\ \E n \in DOMAIN call.args.pre.SOURCES : n \notin DOMAIN SOURCES

\* C6: a scan() that raises leaves SOURCES and SINKS as they were before the
\* call.
Orig_C6 ==
    (call.op = "scan" /\ call.raised) =>
        /\ SOURCES = call.args.pre.SOURCES
        /\ SINKS = call.args.pre.SINKS

\* The role a lookup was called with.
RoleOfLookup ==
    CASE call.op = "list_hardware" -> call.args.dev_type
      [] call.op = "list_source_options" -> "source"
      [] call.op = "list_sink_options" -> "sink"
      [] OTHER -> NoneType

\* C10: a lookup with an explicit role uses only that role's index: it takes
\* the family from it, or raises the unknown-device error when the name is
\* not in it.
Orig_C10 ==
    (call.op \in LookupOps /\ RoleOfLookup \in {"source", "sink"}) =>
        LET devs == IF RoleOfLookup = "source" THEN SOURCES ELSE SINKS
        IN  IF call.args.device \in DOMAIN devs
            THEN call.args.from = RoleOfLookup
            ELSE /\ call.raised
                 /\ call.exc = "ValueError: Unknown/unenumerated device"

============================================================================
